---- MODULE Spec2Model ----
(***************************************************************************)
(* Model of locations/get_locations.py: the two geocoding adapters         *)
(* (get_nominatim_coords, get_wikipedia_coords), the decision between      *)
(* their answers and the loop of geocode_all_locations (Spec); main around *)
(* it, from the upstream records to the saved file and the exported        *)
(* features (SpecMain); clean_place_label as a function on strings         *)
(* (SpecClean); the distance functions (SpecDist).  Model of compare.py's  *)
(* main (SpecCompare) and of scraping/filter_duplicates.py's               *)
(* check_duplicates (SpecDedup).                                           *)
(*                                                                         *)
(* Units.  Angles are integers counted in units of 1/6371000 radian, i.e.  *)
(* one metre of arc on the sphere of radius R = 6371.0 km that             *)
(* haversine_km uses.  Distances are integers in metres (km * 1000).       *)
(* Times are integers in tenths of a second.                               *)
(* Python's None is the empty set, a present value v is {v}.               *)
(***************************************************************************)
EXTENDS Integers, Sequences, FiniteSets, TLC

None == {}
Some(v) == {v}
Val(o) == CHOOSE v \in o : TRUE

Abs(x) == IF x < 0 THEN -x ELSE x

(***************************************************************************)
(* Bounds of the model.                                                    *)
(***************************************************************************)
\* number of distinct place labels in `locations`
NumLabels == 2

\* number of upstream records a run of main loads, at most
MaxWines == 3

\* length of the labels given to clean_place_label, at most
MaxLen == 4

\* number of wines in the file given to check_duplicates, at most
MaxDupWines == 3

\* number of features that compare.py loads, at most
MaxFeatures == 2

\* the coordinates given to the distance functions go up to MaxStep steps
\* of 25.002 km from the origin, in both directions
MaxStep == 3

\* latitudes the services may answer with; every coordinate of the model
\* lies on one meridian
NomLats == {0, 50000}
WikiLats == {0, 50000, 50004}
NomCoords == {[lat |-> l, lon |-> 7000] : l \in NomLats}
WikiCoords == {[lat |-> l, lon |-> 7000] : l \in WikiLats}

(***************************************************************************)
(* Program constants.                                                      *)
(***************************************************************************)
DIVERGENCE_THRESHOLD_KM == 50

\* default of the parameter retry of get_nominatim_coords
RETRY == 3

\* time.sleep(2) between attempts of get_nominatim_coords
BACKOFF == 20

\* faulty variant: 0.11 s instead of 1.1 s
RATE_LIMIT_NOMINATIM_tenth == 11 \div 10

\* time.sleep(1.1) after the call of get_nominatim_coords
RATE_LIMIT_NOMINATIM == 11

\* time.sleep(0.2) after the call of get_wikipedia_coords
RATE_LIMIT_WIKIPEDIA == 2

\* compare.py: time.sleep(0.2) at the end of every pass of the loop
COMPARE_PAUSE == 2

(***************************************************************************)
(* haversine_km.  With dl = 0 the formula is                               *)
(*   a = sin(dp/2)^2,  2 R asin(sqrt(a)) = 2 R asin(|sin(dp/2)|) = R |dp|  *)
(* (|dp| <= pi), and with p1 = p2 = 0 it is likewise R |dl|.  In the       *)
(* model's units R * angle is the angle itself.  The model only draws      *)
(* coordinates for which one of the two cases applies.                     *)
(***************************************************************************)
\* faulty variant: the sign of the difference is kept
haversine_km_signed(lon1, lat1, lon2, lat2) ==
    IF lon2 - lon1 = 0
    THEN lat2 - lat1
    ELSE CASE lat1 = 0 /\ lat2 = 0 -> lon2 - lon1

haversine_km(lon1, lat1, lon2, lat2) ==
    IF lon2 - lon1 = 0
    THEN Abs(lat2 - lat1)
    ELSE CASE lat1 = 0 /\ lat2 = 0 -> Abs(lon2 - lon1)

\* compare.py, haversine_m: the same formula with R in metres, which is
\* the unit of the model
haversine_m(lon1, lat1, lon2, lat2) ==
    LET dp == lat2 - lat1
        dl == lon2 - lon1
    IN  IF dl = 0 THEN Abs(dp)
        ELSE CASE lat1 = 0 /\ lat2 = 0 -> Abs(dl)

\* round(distance, 2): kilometres to two decimals, as an integer number of
\* hundredths of a kilometre (10 m); a tie goes to the even neighbour
round2(distance) ==
    LET q == distance \div 10
        r == distance % 10
    IN  IF r < 5 THEN q
        ELSE IF r > 5 THEN q + 1
        ELSE IF q % 2 = 0 THEN q ELSE q + 1

(***************************************************************************)
(* clean_place_label.  A string is a sequence of one-character strings.    *)
(* The characters of the model: a letter, the comma, the parentheses, the  *)
(* space and the newline; \s and str.strip() take the last two as          *)
(* whitespace, and the `.` of a regular expression matches every          *)
(* character but the newline.                                              *)
(***************************************************************************)
Whitespace == {" ", "\n"}

MinOf(S) == CHOOSE x \in S : \A y \in S : x <= y
MaxOf(S) == CHOOSE x \in S : \A y \in S : x >= y

\* the first position from i on that holds no whitespace, Len(s) + 1 when
\* there is none
SkipSpace(s, i) ==
    MinOf({j \in i..Len(s) : s[j] \notin Whitespace} \cup {Len(s) + 1})

\* place.split(",")[0]
BeforeComma(s) ==
    LET commas == {i \in 1..Len(s) : s[i] = ","}
    IN  IF commas = {} THEN s ELSE SubSeq(s, 1, MinOf(commas) - 1)

\* str.strip()
Strip(s) ==
    LET solid == {i \in 1..Len(s) : s[i] \notin Whitespace}
    IN  IF solid = {} THEN <<>> ELSE SubSeq(s, MinOf(solid), MaxOf(solid))

\* the position of the ")" that ends the shortest match of \(.*?\) begun
\* at the "(" of position j, 0 when there is no match: the first ")" after
\* j, unless a newline comes before it
ClosingParen(s, j) ==
    LET closers == {k \in (j + 1)..Len(s) : s[k] = ")"}
    IN  IF closers = {} THEN 0
        ELSE IF \E m \in (j + 1)..(MinOf(closers) - 1) : s[m] = "\n" THEN 0
        ELSE MinOf(closers)

\* re.sub(r"\s*\(.*?\)\s*", " ", s), from position i on: the leftmost
\* match at i takes the whitespace before a "(", the text up to the first
\* ")" and the whitespace after it
RECURSIVE RemoveParenthesized(_, _)
RemoveParenthesized(s, i) ==
    IF i > Len(s) THEN <<>>
    ELSE LET j == SkipSpace(s, i)
             k == IF j <= Len(s) /\ s[j] = "(" THEN ClosingParen(s, j) ELSE 0
         IN  IF k > 0
             THEN <<" ">> \o RemoveParenthesized(s, SkipSpace(s, k + 1))
             ELSE <<s[i]>> \o RemoveParenthesized(s, i + 1)

\* re.sub(r"\s+", " ", s), from position i on
RECURSIVE CollapseSpace(_, _)
CollapseSpace(s, i) ==
    IF i > Len(s) THEN <<>>
    ELSE IF s[i] \in Whitespace
    THEN <<" ">> \o CollapseSpace(s, SkipSpace(s, i))
    ELSE <<s[i]>> \o CollapseSpace(s, i + 1)

clean_place_label(place) ==
    LET main == Strip(RemoveParenthesized(Strip(BeforeComma(place)), 1))
    IN  CollapseSpace(main, 1)

(***************************************************************************)
(* The input.  wines is data['wines'], the upstream records; a record's    *)
(* field is None when the key is absent, else {its string}.  A place is a  *)
(* sequence of characters, a region an opaque string.  locations is the    *)
(* insertion-ordered dict place -> {place, region} that main extracts from *)
(* wines and gives to geocode_all_locations, kept as the sequence of its   *)
(* values.                                                                 *)
(***************************************************************************)
VARIABLES wines, locations

\* wine.get(key, ''): default stands for the empty string
Get(field, default) == IF field = None THEN default ELSE Val(field)

\* the i-th place label of the model: "a (b),c", "aa (b),c", ...
Label(i) == [k \in 1..i |-> "a"] \o <<" ", "(", "b", ")", ",", "c">>

\* the upstream records of a run over NumLabels distinct places
FixedWines ==
    [i \in 1..NumLabels |-> [place |-> Some(Label(i)), region |-> Some("region")]]

\* the upstream records a run of main may load: no place key, an empty
\* place, the first label under two regions, the second label
WineChoices ==
    {[place |-> None, region |-> Some("r1")],
     [place |-> Some(<<>>), region |-> Some("r1")],
     [place |-> Some(Label(1)), region |-> Some("r1")],
     [place |-> Some(Label(1)), region |-> Some("r2")],
     [place |-> Some(Label(2)), region |-> None]}
WineInputs == UNION {[1..n -> WineChoices] : n \in 0..MaxWines}

\* `place in locations` on the insertion-ordered dict, kept as the sequence
\* of its values
HasKey(d, place) == \E k \in 1..Len(d) : d[k].place = place

\* faulty variant: a record without a place gets a location too
ExtractStep_keeps_empty(locs, wine) ==
    LET place == Get(wine.place, <<>>)
        region == Get(wine.region, "")
    IN  IF ~HasKey(locs, place)
        THEN Append(locs, [place |-> place, region |-> region])
        ELSE locs

\* faulty variant: every record with a place gets a location of its own
ExtractStep_keeps_duplicates(locs, wine) ==
    LET place == Get(wine.place, <<>>)
        region == Get(wine.region, "")
    IN  IF place # <<>>
        THEN Append(locs, [place |-> place, region |-> region])
        ELSE locs

\* faulty variant: a repeated place moves to the end of locations
ExtractStep_moves_on_repeat(locs, wine) ==
    LET place == Get(wine.place, <<>>)
        region == Get(wine.region, "")
    IN  IF place # <<>>
        THEN Append(SelectSeq(locs, LAMBDA l : l.place # place),
                    [place |-> place, region |-> region])
        ELSE locs

\* faulty variant: a repeated place takes the region of its latest record
ExtractStep_last_region(locs, wine) ==
    LET place == Get(wine.place, <<>>)
        region == Get(wine.region, "")
    IN  IF place = <<>> THEN locs
        ELSE IF HasKey(locs, place)
        THEN [k \in 1..Len(locs) |->
                IF locs[k].place = place
                THEN [place |-> place, region |-> region] ELSE locs[k]]
        ELSE Append(locs, [place |-> place, region |-> region])

\* lines 31-38: the body of the loop of extract_unique_locations
ExtractStep(locs, wine) ==
    LET place == Get(wine.place, <<>>)
        region == Get(wine.region, "")
    IN  IF place # <<>> /\ ~HasKey(locs, place)
        THEN Append(locs, [place |-> place, region |-> region])
        ELSE locs

RECURSIVE ExtractFrom(_, _, _)
ExtractFrom(ws, i, locs) ==
    IF i > Len(ws) THEN locs ELSE ExtractFrom(ws, i + 1, ExtractStep(locs, ws[i]))

extract_unique_locations(ws) == ExtractFrom(ws, 1, <<>>)

\* line 108
total == Len(locations)

(***************************************************************************)
(* Adapter A: get_nominatim_coords.                                        *)
(***************************************************************************)
\* what geolocator.geocode can do on one call
Transient == {"GeocoderTimedOut", "GeocoderServiceError"}
GeocodeResponses ==
    {[kind |-> "location", lat |-> Some(c.lat), lon |-> Some(c.lon)] : c \in NomCoords}
    \cup {[kind |-> k, lat |-> None, lon |-> None] :
            k \in {"no_match", "other_exception"} \cup Transient}

\* faulty variant: the last attempt is not recognised, so the loop sleeps after it
\* and leaves through the return below the loop
get_nominatim_coords_sleeps_after_last(att, resp) ==
    IF resp.kind = "location"
    THEN [ctl |-> "return", lat |-> resp.lat, lon |-> resp.lon, sleep |-> 0]
    ELSE IF resp.kind = "no_match"
    THEN [ctl |-> "return", lat |-> None, lon |-> None, sleep |-> 0]
    ELSE IF resp.kind \in Transient
    THEN IF att = RETRY
         THEN [ctl |-> "return", lat |-> None, lon |-> None, sleep |-> 0]
         ELSE [ctl |-> "continue", lat |-> None, lon |-> None, sleep |-> BACKOFF]
    ELSE [ctl |-> "raise", lat |-> None, lon |-> None, sleep |-> 0]

\* faulty variant: exhausting the retries yields a default coordinate
get_nominatim_coords_default_coords(att, resp) ==
    IF resp.kind = "location"
    THEN [ctl |-> "return", lat |-> resp.lat, lon |-> resp.lon, sleep |-> 0]
    ELSE IF resp.kind = "no_match"
    THEN [ctl |-> "return", lat |-> None, lon |-> None, sleep |-> 0]
    ELSE IF resp.kind \in Transient
    THEN IF att = RETRY - 1
         THEN [ctl |-> "return", lat |-> Some(0), lon |-> Some(0), sleep |-> 0]
         ELSE [ctl |-> "continue", lat |-> None, lon |-> None, sleep |-> BACKOFF]
    ELSE [ctl |-> "raise", lat |-> None, lon |-> None, sleep |-> 0]

\* one pass of the body of `for attempt in range(retry)`: what the pass
\* does with geocode's response on attempt number att (0-based)
get_nominatim_coords(att, resp) ==
    IF resp.kind = "location"
    THEN [ctl |-> "return", lat |-> resp.lat, lon |-> resp.lon, sleep |-> 0]
    ELSE IF resp.kind = "no_match"
    THEN [ctl |-> "return", lat |-> None, lon |-> None, sleep |-> 0]
    ELSE IF resp.kind \in Transient
    THEN IF att = RETRY - 1
         THEN [ctl |-> "return", lat |-> None, lon |-> None, sleep |-> 0]
         ELSE [ctl |-> "continue", lat |-> None, lon |-> None, sleep |-> BACKOFF]
    ELSE [ctl |-> "raise", lat |-> None, lon |-> None, sleep |-> 0]

(***************************************************************************)
(* Adapter B: get_wikipedia_coords.                                        *)
(***************************************************************************)
\* what session.get / raise_for_status / json / the page lookup can give:
\*   "coordinates"     a page with a coordinates entry (lat or lon may be null)
\*   "missing"         page.get("missing") is true
\*   "no_coordinates"  the page has no "coordinates" (absent or empty)
\*   "request_failed"  session.get, raise_for_status or r.json() raises
\*   "malformed"       a key or index of the answer is absent (KeyError, ...)
WikiResponses ==
    {[kind |-> "coordinates", lat |-> Some(c.lat), lon |-> Some(c.lon),
      title |-> Some("Title")] : c \in WikiCoords}
    \cup {[kind |-> "coordinates", lat |-> None, lon |-> Some(7000), title |-> Some("Title")],
          [kind |-> "coordinates", lat |-> Some(50000), lon |-> None, title |-> Some("Title")]}
    \cup {[kind |-> k, lat |-> None, lon |-> None, title |-> None] :
            k \in {"missing", "no_coordinates", "request_failed", "malformed"}}

\* faulty variant: a failed request is sent a second time
get_wikipedia_coords_retries(resp) ==
    IF resp.kind = "coordinates"
    THEN [lat |-> resp.lat, lon |-> resp.lon, page |-> resp.title, requests |-> 1]
    ELSE IF resp.kind = "request_failed"
    THEN [lat |-> None, lon |-> None, page |-> None, requests |-> 2]
    ELSE [lat |-> None, lon |-> None, page |-> None, requests |-> 1]

\* the body of get_wikipedia_coords after the request: its return value
\* and the number of session.get calls made (one, outside any loop)
get_wikipedia_coords(resp) ==
    IF resp.kind = "coordinates"
    THEN [lat |-> resp.lat, lon |-> resp.lon, page |-> resp.title, requests |-> 1]
    ELSE [lat |-> None, lon |-> None, page |-> None, requests |-> 1]

(***************************************************************************)
(* The decision of geocode_all_locations (lines 152-198).                  *)
(***************************************************************************)
stats0 ==
    [nominatim_success |-> 0, nominatim_failed |-> 0,
     wikipedia_success |-> 0, wikipedia_failed |-> 0,
     both_agree |-> 0, diverged_used_wikipedia |-> 0,
     only_nominatim |-> 0, only_wikipedia |-> 0, both_failed |-> 0]

OutcomeKeys ==
    {"both_agree", "diverged_used_wikipedia", "only_nominatim",
     "only_wikipedia", "both_failed"}

Bump(st, key) == [st EXCEPT ![key] = @ + 1]

\* faulty variant: a failure of Wikipedia is not counted
UpdateSourceStats_ignores_wikipedia_failure(st, has_nom, has_wiki) ==
    LET s1 == Bump(st, IF has_nom THEN "nominatim_success" ELSE "nominatim_failed")
    IN  IF has_wiki THEN Bump(s1, "wikipedia_success") ELSE s1

\* lines 156-163
UpdateSourceStats(st, has_nom, has_wiki) ==
    Bump(Bump(st, IF has_nom THEN "nominatim_success" ELSE "nominatim_failed"),
         IF has_wiki THEN "wikipedia_success" ELSE "wikipedia_failed")

\* faulty variant: strict comparison with the threshold
WithinThreshold_strict(distance) == distance < DIVERGENCE_THRESHOLD_KM * 1000

\* line 170: distance <= DIVERGENCE_THRESHOLD_KM (distance in metres here)
WithinThreshold(distance) == distance <= DIVERGENCE_THRESHOLD_KM * 1000

Chosen(source, lat, lon, dist, key) ==
    [raises |-> FALSE, chosen_source |-> source, chosen_lat |-> lat,
     chosen_lon |-> lon, distance_km |-> dist, counter |-> key]

\* faulty variant: the divergence branch keeps Nominatim's latitude
DecideBoth_stale_lat(nom_lat, nom_lon, wiki_lat, wiki_lon) ==
    IF wiki_lon = None
    THEN [raises |-> TRUE, chosen_source |-> None, chosen_lat |-> None,
          chosen_lon |-> None, distance_km |-> None, counter |-> "none"]
    ELSE LET distance == haversine_km(Val(nom_lon), Val(nom_lat), Val(wiki_lon), Val(wiki_lat))
         IN  IF WithinThreshold(distance)
             THEN Chosen(Some("nominatim"), nom_lat, nom_lon,
                         Some(round2(distance)), "both_agree")
             ELSE Chosen(Some("wikipedia"), nom_lat, wiki_lon,
                         Some(round2(distance)), "diverged_used_wikipedia")

\* faulty variant: the rounded distance is compared with the threshold
DecideBoth_decides_on_rounded(nom_lat, nom_lon, wiki_lat, wiki_lon) ==
    IF wiki_lon = None
    THEN [raises |-> TRUE, chosen_source |-> None, chosen_lat |-> None,
          chosen_lon |-> None, distance_km |-> None, counter |-> "none"]
    ELSE LET distance == haversine_km(Val(nom_lon), Val(nom_lat), Val(wiki_lon), Val(wiki_lat))
         IN  IF WithinThreshold(round2(distance) * 10)
             THEN Chosen(Some("nominatim"), nom_lat, nom_lon,
                         Some(round2(distance)), "both_agree")
             ELSE Chosen(Some("wikipedia"), wiki_lat, wiki_lon,
                         Some(round2(distance)), "diverged_used_wikipedia")

\* faulty variant: the divergence branch records no distance
DecideBoth_distance_on_agreement_only(nom_lat, nom_lon, wiki_lat, wiki_lon) ==
    IF wiki_lon = None
    THEN [raises |-> TRUE, chosen_source |-> None, chosen_lat |-> None,
          chosen_lon |-> None, distance_km |-> None, counter |-> "none"]
    ELSE LET distance == haversine_km(Val(nom_lon), Val(nom_lat), Val(wiki_lon), Val(wiki_lat))
         IN  IF WithinThreshold(distance)
             THEN Chosen(Some("nominatim"), nom_lat, nom_lon,
                         Some(round2(distance)), "both_agree")
             ELSE Chosen(Some("wikipedia"), wiki_lat, wiki_lon,
                         None, "diverged_used_wikipedia")

\* lines 166-183: both sources have a latitude.  math.radians(lon2 - lon1)
\* raises TypeError when Wikipedia's longitude is None.
DecideBoth(nom_lat, nom_lon, wiki_lat, wiki_lon) ==
    IF wiki_lon = None
    THEN [raises |-> TRUE, chosen_source |-> None, chosen_lat |-> None,
          chosen_lon |-> None, distance_km |-> None, counter |-> "none"]
    ELSE LET distance == haversine_km(Val(nom_lon), Val(nom_lat), Val(wiki_lon), Val(wiki_lat))
         IN  IF WithinThreshold(distance)
             THEN Chosen(Some("nominatim"), nom_lat, nom_lon,
                         Some(round2(distance)), "both_agree")
             ELSE Chosen(Some("wikipedia"), wiki_lat, wiki_lon,
                         Some(round2(distance)), "diverged_used_wikipedia")

\* faulty variant: the Wikipedia-only branch copies Nominatim's (absent) coordinate
DecideOne_copies_nominatim(has_nom, nom_lat, nom_lon, has_wiki, wiki_lat, wiki_lon) ==
    IF has_nom
    THEN Chosen(Some("nominatim"), nom_lat, nom_lon, None, "only_nominatim")
    ELSE IF has_wiki
    THEN Chosen(Some("wikipedia"), nom_lat, nom_lon, None, "only_wikipedia")
    ELSE Chosen(None, None, None, None, "both_failed")

\* faulty variant: the failure branch also counts the label as Nominatim-only
DecideOne_failed_counts_twice(has_nom, nom_lat, nom_lon, has_wiki, wiki_lat, wiki_lon) ==
    IF has_nom
    THEN Chosen(Some("nominatim"), nom_lat, nom_lon, None, "only_nominatim")
    ELSE IF has_wiki
    THEN Chosen(Some("wikipedia"), wiki_lat, wiki_lon, None, "only_wikipedia")
    ELSE Chosen(None, None, None, None, "only_nominatim")

\* lines 184-198: at most one source has a latitude
DecideOne(has_nom, nom_lat, nom_lon, has_wiki, wiki_lat, wiki_lon) ==
    IF has_nom
    THEN Chosen(Some("nominatim"), nom_lat, nom_lon, None, "only_nominatim")
    ELSE IF has_wiki
    THEN Chosen(Some("wikipedia"), wiki_lat, wiki_lon, None, "only_wikipedia")
    ELSE Chosen(None, None, None, None, "both_failed")

\* lines 152-198
Resolve(nom_lat, nom_lon, wiki_lat, wiki_lon) ==
    LET has_nom == nom_lat # None
        has_wiki == wiki_lat # None
    IN  IF has_nom /\ has_wiki
        THEN DecideBoth(nom_lat, nom_lon, wiki_lat, wiki_lon)
        ELSE DecideOne(has_nom, nom_lat, nom_lon, has_wiki, wiki_lat, wiki_lon)

\* results[place] = result on an insertion-ordered dict, kept as the
\* sequence of its values
DictSet(d, place, result) ==
    IF \E k \in 1..Len(d) : d[k].place = place
    THEN [k \in 1..Len(d) |-> IF d[k].place = place THEN result ELSE d[k]]
    ELSE Append(d, result)

(***************************************************************************)
(* geocode_all_locations as a state machine.                               *)
(*                                                                         *)
(* Program state: idx (the loop's position in locations), pc, attempt      *)
(* (the loop variable of get_nominatim_coords), the locals nom_lat ..      *)
(* wiki_page, results and stats.                                           *)
(* Observations of the run, read by the properties only:                   *)
(*   trace      the adapter invocations and recorded decisions, in order   *)
(*   nomLog     geocode's answers during the current/last call of          *)
(*              get_nominatim_coords, nomSleeps its time.sleep(2) calls,   *)
(*              nomReturn how the call ended                               *)
(*   srcA, srcB the last answer of each service for each label             *)
(*   wikiRequests  session.get calls per label                             *)
(*   sinceA, sinceB  time slept since the last request to each service     *)
(*   gapA, gapB      that time at the moment of the latest request         *)
(*   sent       the requests made: <<service, place, query string given>>  *)
(*   progress   the progress lines printed (line 205)                      *)
(*   raised     the exception that ended the run, None while there is none *)
(*                                                                         *)
(* main around it: file is the content of geocoded_locations.json (None:   *)
(* no file), startFile its content when the current run began.  run is 0   *)
(* for a call of geocode_all_locations alone, 1 for a run of main and 2    *)
(* for a second run of main over the same upstream records, in which the   *)
(* services repeat the answers of the first run: tapeA and tapeB hold      *)
(* these answers, firstStats the statistics of the first run.              *)
(*                                                                         *)
(* geojson is the content of wines_map.geojson that export_geojson writes  *)
(* (None: not written), as the sequence of its features.                   *)
(*                                                                         *)
(* label, clean1, clean2: a string and the results of applying             *)
(* clean_place_label to it once and twice.                                 *)
(*                                                                         *)
(* pointA, pointB, dists: two coordinates and the distances measured       *)
(* between them.                                                           *)
(*                                                                         *)
(* compare.py: geo is the feature collection it loads and annotates, cur   *)
(* the position of its loop, events what it did in order, output the       *)
(* content of places_with_dist.geojson.                                    *)
(*                                                                         *)
(* filter_duplicates.py: data is the wine list of the input file, deduped  *)
(* the content of the file that check_duplicates writes for it, again the  *)
(* content of the file it writes when run on that file.                    *)
(***************************************************************************)
VARIABLES idx, pc, attempt, nom_lat, nom_lon, wiki_lat, wiki_lon, wiki_page,
          results, stats,
          trace, nomLog, nomSleeps, nomReturn, srcA, srcB, wikiRequests,
          sinceA, sinceB, gapA, gapB,
          sent, progress, raised,
          run, file, startFile, tapeA, tapeB, firstStats, geojson,
          label, clean1, clean2,
          pointA, pointB, dists,
          geo, cur, events, output,
          data, deduped, again

cleanVars == <<label, clean1, clean2>>
distVars == <<pointA, pointB, dists>>
compareVars == <<geo, cur, events, output>>
dedupVars == <<data, deduped, again>>

vars == <<wines, locations, idx, pc, attempt, nom_lat, nom_lon, wiki_lat, wiki_lon, wiki_page,
          results, stats,
          trace, nomLog, nomSleeps, nomReturn, srcA, srcB, wikiRequests,
          sinceA, sinceB, gapA, gapB,
          sent, progress, raised,
          run, file, startFile, tapeA, tapeB, firstStats, geojson,
          cleanVars, distVars, compareVars, dedupVars>>

\* what no step of geocode_all_locations changes
outside == <<wines, locations, run, startFile, firstStats, geojson,
             cleanVars, distVars, compareVars, dedupVars>>

\* the other programs are not running
CleanIdle == label = <<>> /\ clean1 = None /\ clean2 = None
DistIdle == pointA = None /\ pointB = None /\ dists = None
CompareIdle == geo = <<>> /\ cur = 0 /\ events = <<>> /\ output = None
DedupIdle == data = <<>> /\ deduped = None /\ again = None

locals == <<nom_lat, nom_lon, wiki_lat, wiki_lon, wiki_page>>

\* time.sleep(d) as seen by the two clocks
Slept(since, d) == IF since = None THEN None ELSE Some(Val(since) + d)

\* `for idx, (place, data) in enumerate(locations.items(), 1)`: the next
\* label, or the code after the loop
LoopHead(i) == IF i <= total THEN "nominatim" ELSE "summary"

\* faulty variant: Wikipedia is not asked when Nominatim gave no coordinate
AfterNominatim_skips_on_failure(lat) == IF lat = None THEN "decide" ELSE "wikipedia"

\* line 134: get_wikipedia_coords is called whatever Nominatim returned
AfterNominatim(lat) == "wikipedia"

\* nothing observed yet
NoObservations ==
    /\ trace = <<>>
    /\ nomLog = <<>> /\ nomSleeps = <<>> /\ nomReturn = "none"
    /\ srcA = [i \in 1..total |-> [kind |-> "pending", lat |-> None, lon |-> None]]
    /\ srcB = [i \in 1..total |->
                [kind |-> "pending", lat |-> None, lon |-> None, title |-> None]]
    /\ wikiRequests = [i \in 1..total |-> 0]
    /\ sinceA = None /\ sinceB = None
    /\ gapA = None /\ gapB = None
    /\ sent = {} /\ progress = <<>> /\ raised = None

\* the state in which geocode_all_locations enters its loop
LoopEntry ==
    /\ idx = 1
    /\ attempt = 0
    /\ nom_lat = None /\ nom_lon = None
    /\ wiki_lat = None /\ wiki_lon = None /\ wiki_page = None
    /\ results = <<>>
    /\ stats = stats0

\* a call of geocode_all_locations on the locations of FixedWines
Init ==
    /\ wines = FixedWines
    /\ locations = extract_unique_locations(FixedWines)
    /\ run = 0
    /\ pc = LoopHead(1)
    /\ LoopEntry
    /\ NoObservations
    /\ file = None /\ startFile = None /\ geojson = None
    /\ tapeA = <<>> /\ tapeB = <<>> /\ firstStats = stats0
    /\ CleanIdle /\ DistIdle /\ CompareIdle /\ DedupIdle

\* the SourceResult an answer stands for: Found (a coordinate), NotFound
\* (the service answered, without a match), Error; Partial is a Wikipedia
\* coordinates entry whose lat or lon is null
Class(resp) ==
    CASE resp.kind = "pending" -> "Pending"
      [] resp.kind \in {"location", "coordinates"} /\ resp.lat # None /\ resp.lon # None
            -> "Found"
      [] resp.kind = "coordinates" -> "Partial"
      [] resp.kind \in {"no_match", "missing", "no_coordinates"} -> "NotFound"
      [] OTHER -> "Error"

\* the answers drawn in a run of main
MainGeocodeResponses ==
    {r \in GeocodeResponses :
        r.kind \notin Transient /\ r.lat \in {None, Some(0)}}
MainWikiResponses ==
    {r \in WikiResponses :
        /\ r.kind \in {"coordinates", "missing", "request_failed"}
        /\ r.lat = None => r.lon = None
        /\ r.lat # None => (r.lat = Some(50004) \/ r.lon = None)}

\* what the services may answer to the next request
GeocodeOffer ==
    CASE run = 0 -> GeocodeResponses
      [] run = 1 -> MainGeocodeResponses
      [] OTHER -> IF tapeA = <<>> THEN {} ELSE {Head(tapeA)}
WikiOffer ==
    CASE run = 0 -> WikiResponses
      [] run = 1 -> MainWikiResponses
      [] OTHER -> IF tapeB = <<>> THEN {} ELSE {Head(tapeB)}

Taped(tape, resp) ==
    CASE run = 0 -> tape
      [] run = 1 -> Append(tape, resp)
      [] OTHER -> Tail(tape)

\* faulty variant: Nominatim is given the cleaned label
NominatimQuery_cleaned(place) == clean_place_label(place)

\* line 64: the query given to geolocator.geocode for a place
NominatimQuery(place) == place

\* lines 77 and 84: the title given to Wikipedia for a place
WikipediaTitle(place) == clean_place_label(place)

\* faulty variant: the mapping is saved after every label
FileAfterDecide_incremental(f, res) == Some(res)

\* between lines 137 and 207 nothing is written to the result file
FileAfterDecide(f, res) == f

(***************************************************************************)
(* One pass of the retry loop of get_nominatim_coords for the current      *)
(* label (line 130), with the time.sleep(1.1) of line 131 when the call    *)
(* returns.  An exception other than the two caught ones leaves            *)
(* get_nominatim_coords and geocode_all_locations.                         *)
(***************************************************************************)
NominatimAttempt ==
    /\ pc = "nominatim"
    /\ \E resp \in GeocodeOffer :
        LET r == get_nominatim_coords(attempt, resp)
            \* `continue` on the last value of range(retry): line 72
            fallsOut == r.ctl = "continue" /\ attempt + 1 >= RETRY
            returns == r.ctl = "return" \/ fallsOut
            slept == r.sleep + (IF returns THEN RATE_LIMIT_NOMINATIM ELSE 0)
        IN  /\ trace' = IF attempt = 0
                        THEN Append(trace, <<"A", locations[idx].place>>)
                        ELSE trace
            /\ nomLog' = IF attempt = 0 THEN <<resp.kind>> ELSE Append(nomLog, resp.kind)
            /\ nomSleeps' = (IF attempt = 0 THEN <<>> ELSE nomSleeps)
                            \o (IF r.sleep > 0 THEN <<r.sleep>> ELSE <<>>)
            /\ sent' = sent \cup {<<"A", locations[idx].place,
                                   NominatimQuery(locations[idx].place)>>}
            /\ tapeA' = Taped(tapeA, resp)
            /\ gapA' = sinceA
            /\ sinceA' = Some(slept)
            /\ sinceB' = Slept(sinceB, slept)
            /\ IF returns
               THEN /\ nom_lat' = r.lat
                    /\ nom_lon' = r.lon
                    /\ attempt' = 0
                    /\ nomReturn' = IF resp.kind \in Transient THEN "exhausted" ELSE resp.kind
                    /\ srcA' = [srcA EXCEPT ![idx] = resp]
                    /\ pc' = AfterNominatim(r.lat)
                    /\ UNCHANGED raised
               ELSE IF r.ctl = "continue"
               THEN /\ attempt' = attempt + 1
                    /\ nomReturn' = "running"
                    /\ UNCHANGED <<nom_lat, nom_lon, srcA, pc, raised>>
               ELSE /\ pc' = "raised"
                    /\ raised' = Some("geocode exception")
                    /\ nomReturn' = "raised"
                    /\ srcA' = [srcA EXCEPT ![idx] = resp]
                    /\ UNCHANGED <<nom_lat, nom_lon, attempt>>
    /\ UNCHANGED <<idx, wiki_lat, wiki_lon, wiki_page, results, stats,
                   srcB, wikiRequests, gapB, progress, file, tapeB>>
    /\ UNCHANGED outside

(***************************************************************************)
(* get_wikipedia_coords for the current label (line 134) and the           *)
(* time.sleep(0.2) of line 135.                                            *)
(***************************************************************************)
WikipediaQuery ==
    /\ pc = "wikipedia"
    /\ \E resp \in WikiOffer :
        LET r == get_wikipedia_coords(resp)
        IN  /\ tapeB' = Taped(tapeB, resp)
            /\ wiki_lat' = r.lat
            /\ wiki_lon' = r.lon
            /\ wiki_page' = r.page
            /\ wikiRequests' = [wikiRequests EXCEPT ![idx] = @ + r.requests]
            /\ srcB' = [srcB EXCEPT ![idx] = resp]
    /\ trace' = Append(trace, <<"B", locations[idx].place>>)
    /\ sent' = sent \cup {<<"B", locations[idx].place,
                           WikipediaTitle(locations[idx].place)>>}
    /\ gapB' = sinceB
    /\ sinceB' = Some(RATE_LIMIT_WIKIPEDIA)
    /\ sinceA' = Slept(sinceA, RATE_LIMIT_WIKIPEDIA)
    /\ pc' = "decide"
    /\ UNCHANGED <<idx, attempt, nom_lat, nom_lon, results, stats,
                   nomLog, nomSleeps, nomReturn, srcA, gapA,
                   progress, raised, file, tapeA>>
    /\ UNCHANGED outside

(***************************************************************************)
(* Lines 137-207: build the record, update the statistics, decide, store   *)
(* the record under its place.  The TypeError of haversine_km leaves the   *)
(* function after the per-source counters were updated.                    *)
(***************************************************************************)
Decide ==
    /\ pc = "decide"
    /\ LET place == locations[idx].place
           d == Resolve(nom_lat, nom_lon, wiki_lat, wiki_lon)
           st == UpdateSourceStats(stats, nom_lat # None, wiki_lat # None)
           result == [place |-> place,
                      region |-> locations[idx].region,
                      nominatim_lat |-> nom_lat,
                      nominatim_lon |-> nom_lon,
                      wikipedia_lat |-> wiki_lat,
                      wikipedia_lon |-> wiki_lon,
                      wikipedia_page |-> wiki_page,
                      chosen_source |-> d.chosen_source,
                      chosen_lat |-> d.chosen_lat,
                      chosen_lon |-> d.chosen_lon,
                      distance_km |-> d.distance_km]
       IN  IF d.raises
           THEN /\ stats' = st
                /\ pc' = "raised"
                /\ raised' = Some("TypeError")
                /\ UNCHANGED <<idx, results, trace, progress, file>>
           ELSE /\ stats' = Bump(st, d.counter)
                /\ progress' = Append(progress, <<idx, place>>)
                /\ results' = DictSet(results, place, result)
                /\ file' = FileAfterDecide(file, results')
                /\ trace' = Append(trace, <<"R", place>>)
                /\ idx' = idx + 1
                /\ pc' = LoopHead(idx + 1)
                /\ UNCHANGED raised
    /\ UNCHANGED <<attempt, locals, nomLog, nomSleeps, nomReturn, srcA, srcB,
                   wikiRequests, sinceA, sinceB, gapA, gapB, sent, tapeA, tapeB>>
    /\ UNCHANGED outside

(***************************************************************************)
(* Lines 209-212: print_summary divides by total, then the function        *)
(* returns results and stats.                                              *)
(***************************************************************************)
Summary ==
    /\ pc = "summary"
    /\ pc' = IF total = 0 THEN "raised" ELSE "returned"
    /\ raised' = IF total = 0 THEN Some("ZeroDivisionError") ELSE raised
    /\ UNCHANGED <<idx, attempt, locals, results, stats, trace, nomLog, nomSleeps,
                   nomReturn, srcA, srcB, wikiRequests, sinceA, sinceB, gapA, gapB,
                   sent, progress, file, tapeA, tapeB>>
    /\ UNCHANGED outside

Next == NominatimAttempt \/ WikipediaQuery \/ Decide \/ Summary

Spec == Init /\ [][Next]_vars

(***************************************************************************)
(* Properties.                                                             *)
(***************************************************************************)
Records == {results[k] : k \in 1..Len(results)}

\* what the two services answered for the label of record r
IndexOf(place) == CHOOSE i \in 1..total : locations[i].place = place
AnswerA(r) == srcA[IndexOf(r.place)]
AnswerB(r) == srcB[IndexOf(r.place)]

NominatimChosen(r) ==
    /\ r.chosen_source = Some("nominatim")
    /\ r.chosen_lat = AnswerA(r).lat
    /\ r.chosen_lon = AnswerA(r).lon

WikipediaChosen(r) ==
    /\ r.chosen_source = Some("wikipedia")
    /\ r.chosen_lat = AnswerB(r).lat
    /\ r.chosen_lon = AnswerB(r).lon

\* the distance between the two answers of a record both of whose sources
\* answered with a coordinate
AnswerDistance(r) ==
    haversine_km(Val(AnswerA(r).lon), Val(AnswerA(r).lat),
                 Val(AnswerB(r).lon), Val(AnswerB(r).lat))

BothFound(r) == Class(AnswerA(r)) = "Found" /\ Class(AnswerB(r)) = "Found"

C2_SingleSource ==
    \A r \in Records :
        /\ (Class(AnswerA(r)) = "Found" /\ Class(AnswerB(r)) \in {"NotFound", "Error"})
              => NominatimChosen(r) /\ r.distance_km = None
        /\ (Class(AnswerB(r)) = "Found" /\ Class(AnswerA(r)) \in {"NotFound", "Error"})
              => WikipediaChosen(r) /\ r.distance_km = None

\* the spec's example (Nominatim without a match, Wikipedia found) and the
\* opposite case with a Wikipedia error, in one run
C2_Witness ==
    /\ \E r \in Records :
          /\ Class(AnswerA(r)) = "NotFound" /\ Class(AnswerB(r)) = "Found"
          /\ r.chosen_source = Some("wikipedia") /\ r.chosen_lat = Some(50000)
    /\ \E r \in Records :
          /\ Class(AnswerA(r)) = "Found" /\ Class(AnswerB(r)) = "Error"
          /\ r.chosen_source = Some("nominatim")

NoChoice(r) == r.chosen_source = None /\ r.chosen_lat = None /\ r.chosen_lon = None

\* the record the current step stores (the last of results after the step)
Stored == results'[Len(results')]

\* C3: a source returned a coordinate when its answer carries a latitude
\* (has_nom, has_wiki).  Every step that decides a label whose two sources
\* both returned none stores a record without chosen source and coordinate,
\* adds exactly 1 to both_failed, leaves the other outcome counters alone
\* and raises nothing; every step that stores a record for a label of which
\* a source did return one stores a chosen source and latitude.
C3_BothFailed ==
    [][ pc = "decide" =>
          IF srcA[idx].lat = None /\ srcB[idx].lat = None
          THEN /\ pc' # "raised"
               /\ Len(results') = Len(results) + 1
               /\ Stored.place = locations[idx].place
               /\ NoChoice(Stored)
               /\ stats'.both_failed = stats.both_failed + 1
               /\ \A key \in OutcomeKeys \ {"both_failed"} : stats'[key] = stats[key]
          ELSE /\ stats'.both_failed = stats.both_failed
               /\ pc' # "raised" =>
                    Stored.chosen_source # None /\ Stored.chosen_lat # None
      ]_vars

\* both sources failed for the first label (one by an error, one without a
\* match) and the loop went on to the second label
C3_Witness ==
    /\ idx = 2
    /\ Class(srcA[1]) = "Error" /\ Class(srcB[1]) = "NotFound"
    /\ NoChoice(results[1])
    /\ stats.both_failed = 1

ChosenPair(r) == <<r.chosen_lat, r.chosen_lon>>
PairA(r) == <<AnswerA(r).lat, AnswerA(r).lon>>
PairB(r) == <<AnswerB(r).lat, AnswerB(r).lon>>

\* C4 as stated: a chosen coordinate (latitude and longitude present)
\* equals the coordinate of exactly one of the sources that answered with
\* a coordinate: of one, and not of the other.
C4_ExactlyOneSource ==
    \A r \in Records :
        (r.chosen_lat # None /\ r.chosen_lon # None) =>
            (Class(AnswerA(r)) = "Found" /\ ChosenPair(r) = PairA(r))
            # (Class(AnswerB(r)) = "Found" /\ ChosenPair(r) = PairB(r))

\* C4, amended: whenever a record has a chosen latitude, the chosen
\* latitude and longitude are the pair the chosen source answered with, and
\* that source answered with a latitude; the pair is never a mix or blend
\* of the two answers.  (When both sources answer with the same coordinate
\* the chosen coordinate equals both of them.)
C4_ChosenIsASourceAnswer ==
    \A r \in Records :
        r.chosen_lat # None =>
            \/ /\ r.chosen_source = Some("nominatim")
               /\ AnswerA(r).lat # None
               /\ ChosenPair(r) = PairA(r)
            \/ /\ r.chosen_source = Some("wikipedia")
               /\ AnswerB(r).lat # None
               /\ ChosenPair(r) = PairB(r)

\* both sources answered with the same coordinate; a divergent record too
C4_Witness ==
    /\ \E r \in Records :
          BothFound(r) /\ PairA(r) = PairB(r) /\ ChosenPair(r) = PairA(r)
    /\ \E r \in Records :
          BothFound(r) /\ r.chosen_source = Some("wikipedia") /\ PairA(r) # PairB(r)

\* C5 as stated: the run is never ended by an error raised while an adapter
\* is queried.
C5_QueryErrorNeverAborts ==
    ~(pc = "raised" /\ nomReturn = "raised")

\* the part of a record that describes source A, and source B
FieldsA(r) == <<r.nominatim_lat, r.nominatim_lon>>
FieldsB(r) == <<r.wikipedia_lat, r.wikipedia_lon, r.wikipedia_page>>

C7_RetryDiscipline ==
    LET n == Len(nomLog)
    IN  /\ n <= 3
        /\ \A k \in 1..(n - 1) : nomLog[k] \in Transient
        /\ \A k \in 1..Len(nomSleeps) : nomSleeps[k] = 20
        /\ nomReturn = "running" =>
              nomLog[n] \in Transient /\ n < 3 /\ Len(nomSleeps) = n
        /\ nomReturn \in {"location", "no_match"} =>
              nomLog[n] = nomReturn /\ Len(nomSleeps) = n - 1
        /\ nomReturn = "exhausted" =>
              /\ n = 3 /\ nomLog[3] \in Transient /\ Len(nomSleeps) = 2
              /\ nom_lat = None /\ nom_lon = None
        /\ nomReturn = "raised" => nomLog[n] = "other_exception"

\* the first label's call gave up after three transient failures, the
\* second label's call got its location on the second attempt
C7_Witness ==
    /\ idx = 2
    /\ Class(srcA[1]) = "Error"
    /\ nomReturn = "location"
    /\ Len(nomLog) = 2 /\ nomLog[1] \in Transient
    /\ nomSleeps = <<20>>

WikiNoCoordinate == {"request_failed", "malformed", "missing", "no_coordinates"}

\* C8: get_wikipedia_coords sends exactly one request per label, whatever
\* the outcome; after a failed request, a malformed answer, a missing page
\* or a page without coordinates it returns no latitude, longitude or page.
C8_SingleWikipediaRequest ==
    /\ \A i \in 1..total :
          wikiRequests[i] = IF srcB[i].kind = "pending" THEN 0 ELSE 1
    /\ (pc = "decide" /\ srcB[idx].kind \in WikiNoCoordinate) =>
          wiki_lat = None /\ wiki_lon = None /\ wiki_page = None
    /\ \A r \in Records :
          AnswerB(r).kind \in WikiNoCoordinate => FieldsB(r) = <<None, None, None>>

\* the request for the second label failed, after a missing page for the
\* first
C8_Witness ==
    /\ idx = 2 /\ pc = "decide"
    /\ srcB[1].kind = "missing" /\ srcB[2].kind = "request_failed"
    /\ wikiRequests[2] = 1 /\ wiki_lat = None

\* the k-th event of a run in which every label is taken through
\* adapter A, adapter B and the decision, label after label
Canon(k) ==
    << <<"A", "B", "R">>[((k - 1) % 3) + 1], locations[((k - 1) \div 3) + 1].place >>

\* C9: the invocations of adapter A ("A") and adapter B ("B") and the
\* recorded decisions ("R") occur label by label in the order of
\* locations, as A, B, R for each label: each adapter is invoked once per
\* label, B also after A returned nothing, no label is queried again and no
\* label is begun before the previous one has its record.
C9_LabelStateMachine ==
    /\ Len(trace) <= 3 * total
    /\ \A k \in 1..Len(trace) : trace[k] = Canon(k)
    /\ Len(results) = Len(trace) \div 3
    /\ \A k \in 1..Len(results) : results[k].place = locations[k].place

\* adapter A returned no coordinate for the first label, B was asked, the
\* decision recorded, and the second label has been begun
C9_Witness ==
    /\ Len(trace) = 4
    /\ Class(srcA[1]) \in {"NotFound", "Error"}
    /\ trace[2] = <<"B", locations[1].place>>
    /\ Len(results) = 1

\* C10: at every request to Nominatim at least 1.1 s have been slept since
\* the previous request to it (retries included), and at every request to
\* Wikipedia at least 0.2 s since the previous request to it.
C10_RateLimits ==
    /\ gapA # None => Val(gapA) >= 11
    /\ gapB # None => Val(gapB) >= 2

\* the second label: its first Nominatim request came 1.3 s of sleep after
\* the first label's, a retry followed 2 s later, and the Wikipedia request
\* came after the first label's
C10_Witness ==
    /\ idx = 2 /\ pc = "decide"
    /\ Len(nomLog) = 2
    /\ gapA = Some(20)
    /\ gapB = Some(33)

(***************************************************************************)
(* main: load the upstream records, extract the locations, geocode them,   *)
(* save the result; then a second run over the same records in which the   *)
(* services repeat their answers.                                          *)
(***************************************************************************)
\* a record that an earlier run saved for the first label
OldRecord ==
    [place |-> Label(1), region |-> "old",
     nominatim_lat |-> Some(50000), nominatim_lon |-> Some(7000),
     wikipedia_lat |-> None, wikipedia_lon |-> None, wikipedia_page |-> None,
     chosen_source |-> Some("nominatim"),
     chosen_lat |-> Some(50000), chosen_lon |-> Some(7000),
     distance_km |-> None]

\* the result file before the first run: none, or one holding the record
\* of an earlier run
StartFiles == {None, Some(<<OldRecord>>)}

InitMain ==
    /\ wines \in WineInputs
    /\ locations = <<>>
    /\ run = 1
    /\ pc = "load"
    /\ LoopEntry
    /\ NoObservations
    /\ file \in StartFiles /\ startFile = file /\ geojson = None
    /\ tapeA = <<>> /\ tapeB = <<>> /\ firstStats = stats0
    /\ CleanIdle /\ DistIdle /\ CompareIdle /\ DedupIdle

observations == <<trace, nomLog, nomSleeps, nomReturn, srcA, srcB, wikiRequests,
                  sinceA, sinceB, gapA, gapB, sent, progress>>

\* lines 301-302: load_wine_data and data['wines']; open, json.load or the
\* key lookup may raise
Load ==
    /\ pc = "load"
    /\ \E readable \in BOOLEAN :
          IF readable
          THEN pc' = "extract" /\ UNCHANGED raised
          ELSE pc' = "raised" /\ raised' = Some("input unreadable")
    /\ UNCHANGED <<idx, attempt, locals, results, stats, file, tapeA, tapeB>>
    /\ UNCHANGED observations
    /\ UNCHANGED outside

\* faulty variant: the counters of the earlier call are kept
ResetStats_keeps(st) == st

\* lines 112-122: the counters of a call
ResetStats(st) == stats0

\* line 307: locations = extract_unique_locations(wines)
Extract ==
    /\ pc = "extract"
    /\ locations' = extract_unique_locations(wines)
    /\ pc' = "begin"
    /\ UNCHANGED <<idx, attempt, locals, results, stats, raised, file, tapeA, tapeB>>
    /\ UNCHANGED observations
    /\ UNCHANGED <<wines, run, startFile, firstStats, geojson,
                   cleanVars, distVars, compareVars, dedupVars>>

\* lines 313 and 104-128: geocode_all_locations starts with an empty
\* results and fresh counters; nothing is observed of this call yet
Begin ==
    /\ pc = "begin"
    /\ results' = <<>>
    /\ stats' = ResetStats(stats)
    /\ idx' = 1
    /\ pc' = LoopHead(1)
    /\ trace' = <<>>
    /\ nomLog' = <<>> /\ nomSleeps' = <<>> /\ nomReturn' = "none"
    /\ srcA' = [i \in 1..total |-> [kind |-> "pending", lat |-> None, lon |-> None]]
    /\ srcB' = [i \in 1..total |->
                 [kind |-> "pending", lat |-> None, lon |-> None, title |-> None]]
    /\ wikiRequests' = [i \in 1..total |-> 0]
    /\ sinceA' = None /\ sinceB' = None
    /\ gapA' = None /\ gapB' = None
    /\ sent' = {} /\ progress' = <<>>
    /\ UNCHANGED <<attempt, locals, raised, file, tapeA, tapeB>>
    /\ UNCHANGED outside

\* faulty variant: the records of the file are kept and updated
Persist_merges(old, geocoded) ==
    IF old = None THEN Some(geocoded)
    ELSE Some(SelectSeq(Val(old), LAMBDA r : ~HasKey(geocoded, r.place)) \o geocoded)

\* faulty variant: the file is opened for appending
Persist_appends(old, geocoded) ==
    IF old = None THEN Some(geocoded) ELSE Some(Val(old) \o geocoded)

\* lines 316-317: open(..., 'w') replaces the file, json.dump writes the
\* mapping in the order of its keys
Persist(old, geocoded) == Some(geocoded)

\* lines 316-318: save the mapping; open may raise
Save ==
    /\ pc = "returned" /\ run >= 1
    /\ \E writable \in BOOLEAN :
          IF writable
          THEN /\ file' = Persist(file, results)
               /\ pc' = "saved"
               /\ UNCHANGED raised
          ELSE /\ pc' = "raised"
               /\ raised' = Some("output unwritable")
               /\ UNCHANGED file
    /\ UNCHANGED <<idx, attempt, locals, results, stats, tapeA, tapeB>>
    /\ UNCHANGED observations
    /\ UNCHANGED outside

\* extract_country: the part after the last comma, stripped
extract_country(place) ==
    IF place = <<>> THEN None
    ELSE LET commas == {i \in 1..Len(place) : place[i] = ","}
         IN  IF commas = {} THEN Some(Strip(place))
             ELSE Some(Strip(SubSeq(place, MaxOf(commas) + 1, Len(place))))

\* lines 250-258: the number of upstream records with the place
WineCount(ws, place) == Cardinality({i \in 1..Len(ws) : Get(ws[i].place, <<>>) = place})

\* faulty variant: the position is [chosen_lat, chosen_lon]
ExportFeature_lat_first(rec, ws) ==
    [type |-> "Feature",
     coordinates |-> <<rec.chosen_lat, rec.chosen_lon>>,
     place |-> rec.place,
     country |-> extract_country(rec.place),
     wine_count |-> WineCount(ws, rec.place),
     wines |-> IF WineCount(ws, rec.place) > 10 THEN 10 ELSE WineCount(ws, rec.place),
     source |-> rec.chosen_source,
     nominatim_lat |-> rec.nominatim_lat,
     nominatim_lon |-> rec.nominatim_lon,
     wikipedia_lat |-> rec.wikipedia_lat,
     wikipedia_lon |-> rec.wikipedia_lon,
     distance_km |-> rec.distance_km]

\* lines 266-284: the feature of a record; `wines` is the number of
\* "name (vineyard)" entries that the joined string holds, at most 10
ExportFeature(rec, ws) ==
    [type |-> "Feature",
     coordinates |-> <<rec.chosen_lon, rec.chosen_lat>>,
     place |-> rec.place,
     country |-> extract_country(rec.place),
     wine_count |-> WineCount(ws, rec.place),
     wines |-> IF WineCount(ws, rec.place) > 10 THEN 10 ELSE WineCount(ws, rec.place),
     source |-> rec.chosen_source,
     nominatim_lat |-> rec.nominatim_lat,
     nominatim_lon |-> rec.nominatim_lon,
     wikipedia_lat |-> rec.wikipedia_lat,
     wikipedia_lon |-> rec.wikipedia_lon,
     distance_km |-> rec.distance_km]

\* lines 261-284: the features, in the order of geocoded
RECURSIVE ExportFrom(_, _, _)
ExportFrom(geocoded, ws, k) ==
    IF k > Len(geocoded) THEN <<>>
    ELSE IF geocoded[k].chosen_lat = None
    THEN ExportFrom(geocoded, ws, k + 1)
    ELSE <<ExportFeature(geocoded[k], ws)>> \o ExportFrom(geocoded, ws, k + 1)

export_geojson(geocoded, ws) == ExportFrom(geocoded, ws, 1)

\* lines 320-334: export_geojson writes wines_map.geojson (open may raise)
\* and main prints its last lines
Export ==
    /\ pc = "saved"
    /\ \E writable \in BOOLEAN :
          IF writable
          THEN /\ geojson' = Some(export_geojson(results, wines))
               /\ pc' = "exported"
               /\ UNCHANGED raised
          ELSE /\ pc' = "raised"
               /\ raised' = Some("export unwritable")
               /\ UNCHANGED geojson
    /\ UNCHANGED <<idx, attempt, locals, results, stats, file, tapeA, tapeB>>
    /\ UNCHANGED observations
    /\ UNCHANGED <<wines, locations, run, startFile, firstStats,
                   cleanVars, distVars, compareVars, dedupVars>>

\* the program is run again over the same upstream records
Rerun ==
    /\ pc = "exported" /\ run = 1
    /\ run' = 2
    /\ pc' = "load"
    /\ startFile' = file
    /\ firstStats' = stats
    /\ UNCHANGED <<idx, attempt, locals, results, stats, raised, file, tapeA, tapeB,
                   wines, locations, geojson,
                   cleanVars, distVars, compareVars, dedupVars>>
    /\ UNCHANGED observations

NextMain ==
    \/ Load
    \/ Extract
    \/ Begin
    \/ NominatimAttempt
    \/ WikipediaQuery
    \/ Decide
    \/ Summary
    \/ Save
    \/ Export
    \/ Rerun

SpecMain == InitMain /\ [][NextMain]_vars

(***************************************************************************)
(* Properties of a run of main                                             *)
(***************************************************************************)
PlaceOf(w) == Get(w.place, <<>>)

\* the upstream records that carry a place
Kept(ws) == SelectSeq(ws, LAMBDA w : PlaceOf(w) # <<>>)

\* the distinct non-empty place labels of the upstream records
DistinctPlaces == {PlaceOf(wines[i]) : i \in 1..Len(wines)} \ {<<>>}

\* the places for which the run called a service, printed a progress line
\* or holds a record
Touched ==
    {trace[k][2] : k \in 1..Len(trace)}
        \cup {t[2] : t \in sent}
        \cup {progress[k][2] : k \in 1..Len(progress)}
        \cup {results[k].place : k \in 1..Len(results)}

\* C11: an upstream record whose place is empty or absent is skipped: no
\* service is called, no progress line is printed and no record is stored
\* for an empty place, the locations that main extracts are those of the
\* input without such records, and extracting them raises nothing.
C11_EmptyPlaceSkipped ==
    /\ Touched \subseteq DistinctPlaces
    /\ pc \in {"begin", "nominatim", "wikipedia", "decide", "summary", "returned", "saved"}
          => locations = extract_unique_locations(Kept(wines))
    /\ pc = "begin" => raised = None

\* a saved run whose input had a record without place, one with an empty
\* place and one with a label
C11_Witness ==
    /\ pc = "saved"
    /\ \E i \in 1..Len(wines) : wines[i].place = None
    /\ \E i \in 1..Len(wines) : wines[i].place = Some(<<>>)
    /\ Len(results) = 1 /\ Len(progress) = 1

Finished == pc \in {"summary", "returned", "saved"}

\* C12: when the loop of geocode_all_locations is over, results holds one
\* record for each distinct non-empty place of the input and no other;
\* within a call a stored record is never changed or removed, and no place
\* is decided twice.
C12_OneRecordPerLabel ==
    /\ [](Finished =>
            /\ {results[k].place : k \in 1..Len(results)} = DistinctPlaces
            /\ Len(results) = Cardinality(DistinctPlaces))
    /\ [](\A j, k \in 1..Len(trace) :
            (j # k /\ trace[j][1] = "R") => trace[j] # trace[k])
    /\ [][pc # "begin" =>
            /\ Len(results') >= Len(results)
            /\ \A k \in 1..Len(results) : results'[k] = results[k]]_vars

\* a finished call over an input that repeats a label: two records
C12_Witness ==
    /\ pc = "returned"
    /\ Len(wines) = 3 /\ Cardinality(DistinctPlaces) = 2
    /\ \A i \in 1..Len(wines) : PlaceOf(wines[i]) # <<>>
    /\ Len(results) = 2

\* C13: once the loop over the labels is over, for any number of labels
\* (none included), the run goes on to the statistics and the save: it
\* ends with an exception only when the input could not be read or the
\* output could not be written (the result file, or after it the export).
C13_ReachesPersist ==
    (raised # None /\ idx > total) =>
        raised \in {Some("input unreadable"), Some("output unwritable"),
                    Some("export unwritable")}

\* C14: the result file keeps the content it had when the run began until
\* the run has saved: no step before the save of lines 316-317 writes to
\* it, so a run that ends with an exception leaves none of its records.
C14_NothingPersistedBeforeEnd ==
    (pc \notin {"saved", "exported"} /\ raised # Some("export unwritable"))
        => file = startFile

\* a run that raised after a first label got its record
C14_Witness ==
    /\ pc = "raised" /\ raised = Some("geocode exception")
    /\ Len(results) = 1 /\ Len(progress) = 1
    /\ file = startFile

\* C15: a second run over the same upstream records, in which the services
\* give the answers of the first run again, saves a file equal to that of
\* the first run (same keys in the same order, same fields) and ends with
\* the same statistics.
C15_Deterministic ==
    (run = 2 /\ pc = "saved") => (file = startFile /\ stats = firstStats)

\* a second run that saved two records
C15_Witness ==
    /\ run = 2 /\ pc = "saved"
    /\ Len(results) = 2
    /\ file = Some(results) /\ file = startFile
    /\ tapeA = <<>> /\ tapeB = <<>>

\* the first upstream record that carries a place
FirstIndex(place) == MinOf({i \in 1..Len(wines) : PlaceOf(wines[i]) = place})

\* C16: the labels are queried in the order of their first appearance in
\* the upstream records: of two calls of Nominatim, the earlier is for the
\* label whose first record comes first; a later record with the same
\* label changes nothing.
C16_FirstAppearanceOrder ==
    \A j, k \in 1..Len(trace) :
        (j < k /\ trace[j][1] = "A" /\ trace[k][1] = "A")
            => FirstIndex(trace[j][2]) < FirstIndex(trace[k][2])

\* the first label appears again after the second one and is still
\* queried first
C16_Witness ==
    /\ Len(wines) = 3
    /\ PlaceOf(wines[1]) = Label(2) /\ PlaceOf(wines[2]) = Label(1)
    /\ PlaceOf(wines[3]) = Label(2)
    /\ \E j, k \in 1..Len(trace) :
          j < k /\ trace[j] = <<"A", Label(2)>> /\ trace[k] = <<"A", Label(1)>>

\* C20: Nominatim is given the place label as it stands in the upstream
\* record, Wikipedia is given clean_place_label of it; the key of a record
\* is the label as it stands; where the cleaned label differs from the
\* label, it is neither given to Nominatim nor used as a key.
C20_RawToNominatimCleanToWikipedia ==
    /\ \A t \in sent :
          /\ t[2] \in DistinctPlaces
          /\ t[1] = "A" => t[3] = t[2]
          /\ t[1] = "B" => t[3] = clean_place_label(t[2])
          /\ (t[1] = "A" /\ clean_place_label(t[2]) # t[2])
                => t[3] # clean_place_label(t[2])
    /\ \A k \in 1..Len(results) :
          /\ results[k].place \in DistinctPlaces
          /\ \A p \in DistinctPlaces :
                clean_place_label(p) # p => results[k].place # clean_place_label(p)

\* both services were asked for a label whose cleaned form differs, and
\* the label has its record
C20_Witness ==
    /\ <<"A", Label(1), Label(1)>> \in sent
    /\ <<"B", Label(1), <<"a">> >> \in sent
    /\ \E k \in 1..Len(results) : results[k].place = Label(1)

\* the records that have a chosen latitude, in the order of results
WithCoordinate == SelectSeq(results, LAMBDA r : r.chosen_lat # None)

\* C25: the exported collection holds one feature for each record with a
\* chosen coordinate and none for the others, in the order of the mapping;
\* the position of a feature is [chosen_lon, chosen_lat] of its record and
\* its properties carry the record's place, chosen source, the coordinates
\* of both sources and the distance, unchanged.
C25_OneFeaturePerChosen ==
    pc = "exported" =>
        LET fs == Val(geojson)
        IN  /\ Len(fs) = Len(WithCoordinate)
            /\ \A k \in 1..Len(fs) :
                  LET f == fs[k]
                      r == WithCoordinate[k]
                  IN  /\ f.place = r.place
                      /\ f.coordinates = <<r.chosen_lon, r.chosen_lat>>
                      /\ f.source = r.chosen_source
                      /\ f.nominatim_lat = r.nominatim_lat
                      /\ f.nominatim_lon = r.nominatim_lon
                      /\ f.wikipedia_lat = r.wikipedia_lat
                      /\ f.wikipedia_lon = r.wikipedia_lon
                      /\ f.distance_km = r.distance_km

\* two records, the first without a coordinate, the second chosen from
\* Wikipedia at a distance: one feature, for the second
C25_Witness ==
    /\ pc = "exported"
    /\ Len(results) = 2
    /\ results[1].chosen_lat = None
    /\ results[2].chosen_source = Some("wikipedia") /\ results[2].distance_km # None
    /\ Len(Val(geojson)) = 1
    /\ Val(geojson)[1].place = results[2].place
    /\ Val(geojson)[1].coordinates = <<Some(7000), Some(50004)>>

(***************************************************************************)
(* clean_place_label on its own: a label is drawn, the function is applied *)
(* to it and then to its own result.                                       *)
(***************************************************************************)
Alphabet == {"a", ",", "(", ")", " ", "\n"}
Strings == UNION {[1..n -> Alphabet] : n \in 0..MaxLen}

\* geocode_all_locations and main are not running
Idle ==
    /\ wines = <<>>
    /\ locations = <<>>
    /\ run = 0
    /\ LoopEntry
    /\ NoObservations
    /\ file = None /\ startFile = None /\ geojson = None
    /\ tapeA = <<>> /\ tapeB = <<>> /\ firstStats = stats0

InitClean ==
    /\ label \in Strings
    /\ clean1 = None /\ clean2 = None
    /\ pc = "clean"
    /\ Idle
    /\ DistIdle /\ CompareIdle /\ DedupIdle

\* the variables of get_locations.py
mainVars == <<wines, locations, idx, pc, attempt, nom_lat, nom_lon, wiki_lat, wiki_lon, wiki_page,
              results, stats,
              trace, nomLog, nomSleeps, nomReturn, srcA, srcB, wikiRequests,
              sinceA, sinceB, gapA, gapB,
              sent, progress, raised,
              run, file, startFile, tapeA, tapeB, firstStats, geojson>>

notClean == <<mainVars, distVars, compareVars, dedupVars>>

CleanOnce ==
    /\ pc = "clean" /\ clean1 = None
    /\ clean1' = Some(clean_place_label(label))
    /\ UNCHANGED <<label, clean2>>
    /\ UNCHANGED notClean

CleanTwice ==
    /\ pc = "clean" /\ clean1 # None /\ clean2 = None
    /\ clean2' = Some(clean_place_label(Val(clean1)))
    /\ UNCHANGED <<label, clean1>>
    /\ UNCHANGED notClean

NextClean == CleanOnce \/ CleanTwice

SpecClean == InitClean /\ [][NextClean]_vars

\* C18: applying clean_place_label to its own result gives that result
\* again, for every label over letters, commas, parentheses, spaces and
\* newlines.
C18_Idempotent == clean2 # None => clean2 = clean1

IsSpace(c) == c \in Whitespace

\* C19: the result of clean_place_label is the result for the part of the
\* label before its first comma, holds no comma, neither begins nor ends
\* with whitespace, holds no two whitespace characters in a row, and holds
\* no "(" with a ")" somewhere after it.
C19_CleanOutput ==
    clean1 # None =>
        LET out == Val(clean1)
        IN  /\ out = clean_place_label(BeforeComma(label))
            /\ \A i \in 1..Len(out) : out[i] # ","
            /\ out # <<>> => ~IsSpace(out[1]) /\ ~IsSpace(out[Len(out)])
            /\ \A i \in 1..(Len(out) - 1) : ~(IsSpace(out[i]) /\ IsSpace(out[i + 1]))
            /\ \A i \in 1..Len(out) : \A j \in (i + 1)..Len(out) :
                    ~(out[i] = "(" /\ out[j] = ")")

(***************************************************************************)
(* The distance between the two sources                                    *)
(***************************************************************************)
\* C17: every record carries a distance exactly when both sources answered
\* with a coordinate, and then it is the rounded distance between the two
\* answers, whether Nominatim (agreement) or Wikipedia (divergence) is chosen.
C17_DistanceIffBoth ==
    \A r \in Records :
        /\ (r.distance_km # None) <=> BothFound(r)
        /\ BothFound(r) => r.distance_km = Some(round2(AnswerDistance(r)))

\* one record in agreement and one in divergence, each with its distance
C17_Witness ==
    /\ \E r \in Records :
          BothFound(r) /\ NominatimChosen(r) /\ r.distance_km = Some(round2(50000))
    /\ \E r \in Records :
          BothFound(r) /\ WikipediaChosen(r) /\ r.distance_km = Some(round2(50004))

(***************************************************************************)
(* The statistics                                                          *)
(***************************************************************************)
StatKeys == DOMAIN stats0

\* C22: at the beginning of every call of geocode_all_locations, the
\* second run's included, every counter is 0 whatever the counters of the
\* earlier call were, and during the call no step lowers a counter.
C22_StatsResetAndMonotone ==
    [][/\ pc = "begin" => stats' = stats0
       /\ pc # "begin" => \A key \in StatKeys : stats'[key] >= stats[key]]_vars

\* the second call begins at zero after a first call that counted
C22_Witness ==
    /\ run = 2 /\ pc = "nominatim" /\ idx = 1 /\ attempt = 0
    /\ stats = stats0
    /\ firstStats.nominatim_success = 1 /\ firstStats.both_failed = 1

Present(x) == x # None

\* C23: in every record, Nominatim's latitude is present exactly when its
\* longitude is, Wikipedia's latitude exactly when its longitude is, for
\* every answer the services can give, and chosen_source, chosen_lat and
\* chosen_lon are all present or all absent.
C23_NeverPartial ==
    \A r \in Records :
        /\ Present(r.nominatim_lat) <=> Present(r.nominatim_lon)
        /\ Present(r.wikipedia_lat) <=> Present(r.wikipedia_lon)
        /\ Present(r.chosen_lat) <=> Present(r.chosen_lon)
        /\ Present(r.chosen_source) <=> Present(r.chosen_lat)

\* C24: after the save the file holds the records of this run and nothing
\* else, whatever it held before: a record that an earlier run saved for
\* the same label is replaced.
C24_NotAccumulative == pc = "saved" => file = Some(results)

\* the file held an earlier record for the first label, the run saved
\* another record for it
C24_Witness ==
    /\ run = 1 /\ pc = "saved"
    /\ startFile = Some(<<OldRecord>>)
    /\ Len(results) = 1 /\ results[1].place = Label(1) /\ results[1] # OldRecord
    /\ file = Some(results)

Sum(st, keys) ==
    LET RECURSIVE Add(_)
        Add(K) == IF K = {} THEN 0
                  ELSE LET k == CHOOSE x \in K : TRUE IN st[k] + Add(K \ {k})
    IN  Add(keys)

\* the keys of which st2 is one above st1
Raised(st1, st2) == {key \in StatKeys : st2[key] = st1[key] + 1}
Same(st1, st2) == {key \in StatKeys : st2[key] = st1[key]}

\* C26: with k the number of labels that have their record, the counters
\* satisfy nominatim_success + nominatim_failed = k, wikipedia_success +
\* wikipedia_failed = k, the five outcome counters add up to k,
\* nominatim_success = both_agree + diverged_used_wikipedia +
\* only_nominatim and wikipedia_success = both_agree +
\* diverged_used_wikipedia + only_wikipedia; the step that stores a record
\* adds 1 to exactly one outcome counter, to exactly one of Nominatim's two
\* counters and to exactly one of Wikipedia's two, and changes no other.
C26_StatsIdentities ==
    /\ [](raised # Some("TypeError") =>
            LET k == Len(results)
            IN  /\ stats.nominatim_success + stats.nominatim_failed = k
                /\ stats.wikipedia_success + stats.wikipedia_failed = k
                /\ Sum(stats, OutcomeKeys) = k
                /\ stats.nominatim_success =
                      stats.both_agree + stats.diverged_used_wikipedia
                          + stats.only_nominatim
                /\ stats.wikipedia_success =
                      stats.both_agree + stats.diverged_used_wikipedia
                          + stats.only_wikipedia)
    /\ [][Len(results') = Len(results) + 1 =>
            /\ Cardinality(Raised(stats, stats') \cap OutcomeKeys) = 1
            /\ Cardinality(Raised(stats, stats')
                    \cap {"nominatim_success", "nominatim_failed"}) = 1
            /\ Cardinality(Raised(stats, stats')
                    \cap {"wikipedia_success", "wikipedia_failed"}) = 1
            /\ Raised(stats, stats') \cup Same(stats, stats') = StatKeys]_vars

\* two labels have their records, one found by Wikipedia only and one by
\* neither source
C26_Witness ==
    /\ Len(results) = 2
    /\ stats.only_wikipedia = 1 /\ stats.both_failed = 1
    /\ stats.nominatim_failed = 2
    /\ stats.wikipedia_success = 1 /\ stats.wikipedia_failed = 1

\* C27: in every record for which both sources answered with a
\* coordinate, the chosen source is nominatim exactly when the recorded
\* distance_km (rounded to 2 decimals, here in hundredths of a kilometre)
\* is at most DIVERGENCE_THRESHOLD_KM, and wikipedia exactly when it is
\* above it.
C27_RecordedDistanceDecides ==
    \A r \in Records :
        BothFound(r) =>
            /\ r.chosen_source = Some("nominatim")
                  <=> Val(r.distance_km) <= DIVERGENCE_THRESHOLD_KM * 100
            /\ r.chosen_source = Some("wikipedia")
                  <=> Val(r.distance_km) > DIVERGENCE_THRESHOLD_KM * 100

\* C27, amended: the decision is taken on the distance before rounding.
\* The chosen source is nominatim exactly when the distance between the
\* two answers is at most DIVERGENCE_THRESHOLD_KM and wikipedia otherwise;
\* the recorded distance_km is that distance rounded, so it is at most the
\* threshold when nominatim is chosen and at least the threshold (equal to
\* it for a distance less than 5 m above) when wikipedia is chosen.
C27_UnroundedDistanceDecides ==
    \A r \in Records :
        BothFound(r) =>
            /\ r.chosen_source = Some("nominatim")
                  <=> AnswerDistance(r) <= DIVERGENCE_THRESHOLD_KM * 1000
            /\ r.chosen_source = Some("wikipedia")
                  <=> AnswerDistance(r) > DIVERGENCE_THRESHOLD_KM * 1000
            /\ r.distance_km = Some(round2(AnswerDistance(r)))
            /\ r.chosen_source = Some("nominatim")
                  => Val(r.distance_km) <= DIVERGENCE_THRESHOLD_KM * 100
            /\ r.chosen_source = Some("wikipedia")
                  => Val(r.distance_km) >= DIVERGENCE_THRESHOLD_KM * 100

\* Wikipedia chosen 4 m above the threshold, recorded as 50.00 km
C27_Witness ==
    \E r \in Records :
        /\ BothFound(r) /\ AnswerDistance(r) = 50004
        /\ r.chosen_source = Some("wikipedia")
        /\ r.distance_km = Some(DIVERGENCE_THRESHOLD_KM * 100)

\* the decision for a record, from the two answers alone
DecisionOf(r) ==
    Resolve(AnswerA(r).lat, AnswerA(r).lon, AnswerB(r).lat, AnswerB(r).lon)

\* C28: the region of a record is the region field ('' when absent) of the
\* first upstream record with the record's place, also when a later record
\* with that place has another region; the chosen source and coordinate
\* are those that the two answers alone determine.
C28_RegionOfFirstRecord ==
    \A k \in 1..Len(results) :
        LET r == results[k]
        IN  pc \notin {"load", "extract", "begin"} =>
              /\ r.region = Get(wines[FirstIndex(r.place)].region, "")
              /\ r.chosen_source = DecisionOf(r).chosen_source
              /\ r.chosen_lat = DecisionOf(r).chosen_lat
              /\ r.chosen_lon = DecisionOf(r).chosen_lon

\* the first label comes with region r1 and later with region r2; its
\* record has region r1
C28_Witness ==
    /\ Len(wines) >= 2
    /\ wines[1] = [place |-> Some(Label(1)), region |-> Some("r1")]
    /\ wines[2] = [place |-> Some(Label(1)), region |-> Some("r2")]
    /\ Len(results) = 1 /\ results[1].region = "r1"
    /\ results[1].chosen_source # None

(***************************************************************************)
(* The distance functions on their own: two points are drawn on one        *)
(* meridian or on the equator and the distances between them are measured. *)
(***************************************************************************)
Steps == {k * 25002 : k \in (-MaxStep)..MaxStep}
Points ==
    {[lon |-> 7000, lat |-> l] : l \in Steps} \cup {[lon |-> l, lat |-> 0] : l \in Steps}

\* the pairs for which the closed form of the distance applies
Aligned(a, b) == a.lon = b.lon \/ (a.lat = 0 /\ b.lat = 0)

InitDist ==
    /\ pointA \in {Some(a) : a \in Points}
    /\ pointB \in {Some(b) : b \in Points}
    /\ Aligned(Val(pointA), Val(pointB))
    /\ dists = None
    /\ pc = "measure"
    /\ Idle
    /\ CleanIdle /\ CompareIdle /\ DedupIdle

Measure ==
    /\ pc = "measure" /\ dists = None
    /\ LET a == Val(pointA)
           b == Val(pointB)
       IN  dists' = Some([ab |-> haversine_km(a.lon, a.lat, b.lon, b.lat),
                          ba |-> haversine_km(b.lon, b.lat, a.lon, a.lat),
                          aa |-> haversine_km(a.lon, a.lat, a.lon, a.lat),
                          m_ab |-> haversine_m(a.lon, a.lat, b.lon, b.lat),
                          m_ba |-> haversine_m(b.lon, b.lat, a.lon, a.lat),
                          m_aa |-> haversine_m(a.lon, a.lat, a.lon, a.lat)])
    /\ pc' = "measured"
    /\ UNCHANGED <<pointA, pointB>>
    /\ UNCHANGED <<wines, locations, idx, attempt, locals, results, stats,
                   raised, run, file, startFile, tapeA, tapeB, firstStats, geojson>>
    /\ UNCHANGED observations
    /\ UNCHANGED <<cleanVars, compareVars, dedupVars>>

NextDist == Measure

SpecDist == InitDist /\ [][NextDist]_vars

InputFeatures ==
    {[place |-> Label(1), lon |-> Some(7000), lat |-> Some(0),
      wiki_lat |-> None, wiki_lon |-> None, wiki_page |-> None,
      distance_m |-> None, wiki_error |-> None],
     [place |-> Label(2), lon |-> None, lat |-> Some(50000),
      wiki_lat |-> None, wiki_lon |-> None, wiki_page |-> None,
      distance_m |-> None, wiki_error |-> None]}
GeoInputs == UNION {[1..n -> InputFeatures] : n \in 0..MaxFeatures}

\* compare.py lines 28-55: get_wikipedia_coords has no try of its own; a
\* failed request and an unexpected body raise
compare_get_wikipedia_coords(resp) ==
    CASE resp.kind = "request_failed" ->
            [raises |-> TRUE, error |-> "request failed", wiki |-> None]
      [] resp.kind = "malformed" ->
            [raises |-> TRUE, error |-> "KeyError", wiki |-> None]
      [] resp.kind \in {"missing", "no_coordinates"} ->
            [raises |-> FALSE, error |-> "", wiki |-> None]
      [] OTHER ->
            [raises |-> FALSE, error |-> "",
             wiki |-> Some([title |-> resp.title, lat |-> resp.lat, lon |-> resp.lon])]

\* round(dist, 1): metres to one decimal, as a number of tenths of a metre
round1(dist) == dist * 10

\* lines 78-89: the properties of a feature after its lookup
Annotate(feature, resp) ==
    LET r == compare_get_wikipedia_coords(resp)
    IN  IF r.raises
        THEN [feature EXCEPT !.wiki_error = Some(r.error)]
        ELSE IF r.wiki = None
        THEN [feature EXCEPT !.wiki_error = Some("no_coordinates")]
        ELSE LET wiki == Val(r.wiki)
             IN  IF None \in {feature.lon, feature.lat, wiki.lon, wiki.lat}
                 THEN [feature EXCEPT !.wiki_error = Some("TypeError")]
                 ELSE [feature EXCEPT
                         !.wiki_lat = wiki.lat,
                         !.wiki_lon = wiki.lon,
                         !.wiki_page = wiki.title,
                         !.distance_m =
                             Some(round1(haversine_m(Val(feature.lon), Val(feature.lat),
                                                     Val(wiki.lon), Val(wiki.lat))))]

\* faulty variant: the pause is skipped after a lookup that raised
PassEvents_no_pause_on_error(k, resp) ==
    IF compare_get_wikipedia_coords(resp).raises
    THEN << <<"lookup", k>> >>
    ELSE << <<"lookup", k>>, <<"sleep", k, COMPARE_PAUSE>> >>

\* lines 79 and 92: what a pass of the loop does, in order
PassEvents(k, resp) == << <<"lookup", k>>, <<"sleep", k, COMPARE_PAUSE>> >>

InitCompare ==
    /\ geo \in GeoInputs
    /\ cur = 1
    /\ events = <<>>
    /\ output = None
    /\ pc = "compare"
    /\ Idle
    /\ CleanIdle /\ DistIdle /\ DedupIdle

notCompare == <<wines, locations, idx, attempt, locals, results, stats,
                raised, run, file, startFile, tapeA, tapeB, firstStats, geojson,
                observations, cleanVars, distVars, dedupVars>>

\* lines 71-92: one pass of the loop
CompareFeature ==
    /\ pc = "compare" /\ cur <= Len(geo)
    /\ \E resp \in WikiResponses :
          /\ geo' = [geo EXCEPT ![cur] = Annotate(geo[cur], resp)]
          /\ events' = events \o PassEvents(cur, resp)
    /\ cur' = cur + 1
    /\ UNCHANGED <<pc, output>>
    /\ UNCHANGED notCompare

\* lines 94-97: the collection is saved; open may raise
CompareWrite ==
    /\ pc = "compare" /\ cur > Len(geo)
    /\ \E writable \in BOOLEAN :
          IF writable
          THEN /\ output' = Some(geo)
               /\ events' = Append(events, <<"write", cur>>)
               /\ pc' = "compared"
          ELSE /\ pc' = "compare raised"
               /\ UNCHANGED <<output, events>>
    /\ UNCHANGED <<geo, cur>>
    /\ UNCHANGED notCompare

NextCompare == CompareFeature \/ CompareWrite

SpecCompare == InitCompare /\ [][NextCompare]_vars

\* the feature has the distance with Wikipedia's coordinate and page and no
\* error, or the error and none of the four
Measured(f) ==
    /\ f.wiki_lat # None /\ f.wiki_lon # None /\ f.wiki_page # None
    /\ f.distance_m # None
    /\ f.wiki_error = None
Failed(f) ==
    /\ f.wiki_lat = None /\ f.wiki_lon = None /\ f.wiki_page = None
    /\ f.distance_m = None
    /\ f.wiki_error # None

\* what the loop has done when it is at position n: lookup and pause for
\* each feature before n, in order
RECURSIVE Passes(_)
Passes(n) ==
    IF n <= 1 THEN <<>>
    ELSE Passes(n - 1) \o << <<"lookup", n - 1>>, <<"sleep", n - 1, COMPARE_PAUSE>> >>

\* C29: no lookup ends the run: the run raises only when the output cannot
\* be written, after the last feature.  Every feature that the loop has
\* passed has either distance_m with wiki_lat, wiki_lon and wiki_page, or
\* wiki_error, never both and never neither; the features ahead are
\* untouched; each lookup, failed or not, is followed by the pause of
\* 0.2 s; the output is written once, after the last feature, and holds
\* every feature.
C29_LookupFailureRecorded ==
    pc \in {"compare", "compared", "compare raised"} =>
        /\ \A k \in 1..Len(geo) :
              IF k < cur THEN (Measured(geo[k]) \/ Failed(geo[k]))
                              /\ ~(Measured(geo[k]) /\ Failed(geo[k]))
              ELSE geo[k] \in InputFeatures
        /\ pc \in {"compared", "compare raised"} => cur = Len(geo) + 1
        /\ IF output = None
           THEN pc # "compared" /\ events = Passes(cur)
           ELSE /\ pc = "compared"
                /\ output = Some(geo)
                /\ events = Append(Passes(Len(geo) + 1), <<"write", Len(geo) + 1>>)

\* the first lookup raised, the second gave a coordinate, and the output
\* holds both features
C29_Witness ==
    /\ pc = "compared" /\ Len(geo) = 2
    /\ geo[1].wiki_error = Some("request failed")
    /\ geo[2].distance_m = Some(round1(50004)) /\ geo[2].wiki_page = Some("Title")
    /\ output = Some(geo)

(***************************************************************************)
(* scraping/filter_duplicates.py: check_duplicates(filepath,               *)
(* remove_duplicates=True) on a file holding {"wines": data}, and then on  *)
(* the file it wrote.  A field of a wine is None when its key is absent,   *)
(* which is what w.get(key) returns.                                       *)
(***************************************************************************)
\* two wines with the same key and another rating, one without vineyard,
\* one with another name
DupChoices ==
    {[vineyard |-> Some("v1"), name |-> Some("n1"), place |-> Some("p1"), rating |-> 1],
     [vineyard |-> Some("v1"), name |-> Some("n1"), place |-> Some("p1"), rating |-> 2],
     [vineyard |-> None, name |-> Some("n1"), place |-> Some("p1"), rating |-> 1],
     [vineyard |-> Some("v1"), name |-> Some("n2"), place |-> Some("p1"), rating |-> 1]}
DupInputs == UNION {[1..n -> DupChoices] : n \in 0..MaxDupWines}

\* lines 17 and 41
Key(w) == <<w.vineyard, w.name, w.place>>

\* faulty variant: a later wine with a known key takes the place of the
\* earlier one
DedupStep_keeps_last(unique_wines, wine) ==
    IF \E k \in 1..Len(unique_wines) : Key(unique_wines[k]) = Key(wine)
    THEN [k \in 1..Len(unique_wines) |->
            IF Key(unique_wines[k]) = Key(wine) THEN wine ELSE unique_wines[k]]
    ELSE Append(unique_wines, wine)

\* lines 41-44: seen is the set of the keys of unique_wines
DedupStep(unique_wines, wine) ==
    IF \E k \in 1..Len(unique_wines) : Key(unique_wines[k]) = Key(wine)
    THEN unique_wines
    ELSE Append(unique_wines, wine)

RECURSIVE DedupFrom(_, _, _)
DedupFrom(ws, i, unique_wines) ==
    IF i > Len(ws) THEN unique_wines
    ELSE DedupFrom(ws, i + 1, DedupStep(unique_wines, ws[i]))

\* lines 38-50: the content of the output file
check_duplicates(ws) ==
    LET unique_wines == DedupFrom(ws, 1, <<>>)
    IN  [total_wines |-> Len(unique_wines), wines |-> unique_wines]

InitDedup ==
    /\ data \in DupInputs
    /\ deduped = None /\ again = None
    /\ pc = "dedup"
    /\ Idle
    /\ CleanIdle /\ DistIdle /\ CompareIdle

notDedup == <<wines, locations, idx, pc, attempt, locals, results, stats,
              raised, run, file, startFile, tapeA, tapeB, firstStats, geojson,
              observations, cleanVars, distVars, compareVars>>

\* check_duplicates on the input file
CheckDuplicates ==
    /\ pc = "dedup" /\ deduped = None
    /\ deduped' = Some(check_duplicates(data))
    /\ UNCHANGED <<data, again>>
    /\ UNCHANGED notDedup

\* check_duplicates on the file it wrote: line 13 takes its "wines"
CheckAgain ==
    /\ pc = "dedup" /\ deduped # None /\ again = None
    /\ again' = Some(check_duplicates(Val(deduped).wines))
    /\ UNCHANGED <<data, deduped>>
    /\ UNCHANGED notDedup

NextDedup == CheckDuplicates \/ CheckAgain

SpecDedup == InitDedup /\ [][NextDedup]_vars

\* the first wine of the input with the key
FirstWith(key) == MinOf({i \in 1..Len(data) : Key(data[i]) = key})

\* C30: in the wine list that check_duplicates writes no two wines have
\* the same (vineyard, name, place), every key of the input is the key of
\* a written wine, the wine written for a key is the first wine of the
\* input with that key, the written wines stand in the order of the
\* input, and total_wines is the number of distinct keys; run on the file
\* it wrote, check_duplicates writes the same content.
C30_FirstOccurrenceKept ==
    /\ deduped # None =>
          LET out == Val(deduped).wines
          IN  /\ \A i, j \in 1..Len(out) : i # j => Key(out[i]) # Key(out[j])
              /\ {Key(out[i]) : i \in 1..Len(out)} = {Key(data[i]) : i \in 1..Len(data)}
              /\ \A i \in 1..Len(out) : out[i] = data[FirstWith(Key(out[i]))]
              /\ \A i, j \in 1..Len(out) :
                    i < j => FirstWith(Key(out[i])) < FirstWith(Key(out[j]))
              /\ Val(deduped).total_wines
                    = Cardinality({Key(data[i]) : i \in 1..Len(data)})
    /\ again # None => again = deduped

\* the first wine comes again with another rating after a second wine:
\* the first two are written, and a second run writes them again
C30_Witness ==
    /\ Len(data) = 3
    /\ Key(data[1]) = Key(data[3]) /\ data[1] # data[3] /\ Key(data[2]) # Key(data[1])
    /\ deduped = Some([total_wines |-> 2, wines |-> <<data[1], data[2]>>])
    /\ again = deduped
====
